---- MODULE Spec2Model ----
(***************************************************************************)
(* SKIRT/core/WeingartnerDraineDustMix.cpp                                 *)
(*                                                                         *)
(* Two parts:                                                              *)
(*  - the grain size distributions dnda_grasil, dnda_pah and the six       *)
(*    environment functions built on them, evaluated in a binary floating  *)
(*    point arithmetic that has the exponent range of the C++ double       *)
(*    (overflow at 2^1024, smallest positive value 2^-1074, gradual        *)
(*    underflow, round to nearest even) and a significand of MantBits      *)
(*    bits; the libm functions are evaluated by argument reduction and     *)
(*    series in that arithmetic;                                           *)
(*  - WeingartnerDraineDustMix::setupSelfBefore, statement by statement,   *)
(*    with the calls it makes on its base class recorded in a log.         *)
(***************************************************************************)
EXTENDS Integers, Sequences, FiniteSets

(***************************************************************************)
(* double                                                                  *)
(*                                                                         *)
(* A value is [k, s, m, e]: k is "fin", "inf" or "nan", and a finite value *)
(* is s * m * 2^e with s the sign, m the significand (below 2^MantBits,    *)
(* and at least 2^(MantBits-1) unless e = MinExp) and e the exponent.      *)
(* Every operator hands the values it uses more than once to the next      *)
(* operator as parameters.                                                 *)
(***************************************************************************)

\* width of the significand kept by the model's double
MantBits == 15
\* a double is below 2^MaxExp in magnitude
MaxExp == 1024
\* the smallest positive double is 2^MinExp
MinExp == -1074

Zero == [k |-> "fin", s |-> 1, m |-> 0, e |-> 0]
Inf(s) == [k |-> "inf", s |-> s, m |-> 0, e |-> 0]
NaN == [k |-> "nan", s |-> 1, m |-> 0, e |-> 0]
One == [k |-> "fin", s |-> 1, m |-> 2^(MantBits-1), e |-> 1 - MantBits]
Two == [k |-> "fin", s |-> 1, m |-> 2^(MantBits-1), e |-> 2 - MantBits]
Half == [k |-> "fin", s |-> 1, m |-> 2^(MantBits-1), e |-> -MantBits]

IsZero(x) == x.k = "fin" /\ x.m = 0
IsFinite(x) == x.k = "fin"
IsNaN(x) == x.k = "nan"
\* x > 0
FPos(x) == x.k # "nan" /\ ~IsZero(x) /\ x.s = 1
\* x < 0
FNegative(x) == x.k # "nan" /\ ~IsZero(x) /\ x.s = -1

\* the number of bits of a natural number n below 2^31
BitLen(n) ==
    IF n >= 2^30 THEN 31
    ELSE CHOOSE i \in 0..30 : n < 2^i /\ (i = 0 \/ n >= 2^(i-1))

\* n / 2^k rounded to the nearest integer, ties to even
RoundShift(n, k) ==
    IF n % (2^k) > 2^(k-1) \/ (n % (2^k) = 2^(k-1) /\ (n \div (2^k)) % 2 = 1)
    THEN n \div (2^k) + 1
    ELSE n \div (2^k)

\* s * q * 2^e for q up to 2^MantBits: the significand brought back below
\* 2^MantBits, and the overflow to infinity
Pack(s, q, e) ==
    IF q = 0 THEN Zero
    ELSE IF e + (IF q = 2^MantBits THEN 1 ELSE 0) + MantBits > MaxExp THEN Inf(s)
    ELSE IF q = 2^MantBits
         THEN [k |-> "fin", s |-> s, m |-> q \div 2, e |-> e + 1]
         ELSE [k |-> "fin", s |-> s, m |-> q, e |-> e]

\* s * n * 2^e with the last k bits of the len bits of n rounded away
\* (k <= 0: that many bits appended)
RoundBy(s, n, e, len, k) ==
    IF k > len THEN Zero
    ELSE Pack(s, IF k > 0 THEN RoundShift(n, k) ELSE n * 2^(-k), e + k)

\* the bits to drop: down to the significand's width, and more when the
\* exponent would fall below the smallest
RoundTo(s, n, e, len) ==
    RoundBy(s, n, e, len,
            IF e + len - MantBits < MinExp THEN MinExp - e ELSE len - MantBits)

\* the double nearest to s * n * 2^e (n a natural number below 2^31)
Round(s, n, e) == IF n = 0 THEN Zero ELSE RoundTo(s, n, e, BitLen(n))

FromInt(n) == Round(IF n < 0 THEN -1 ELSE 1, IF n < 0 THEN -n ELSE n, 0)

FNeg(x) == IF x.k = "nan" \/ IsZero(x) THEN x ELSE [x EXCEPT !.s = -x.s]

FAbs(x) == IF x.k = "nan" THEN x ELSE [x EXCEPT !.s = 1]

FMul(x, y) ==
    IF x.k = "nan" \/ y.k = "nan" THEN NaN
    ELSE IF x.k = "inf" \/ y.k = "inf"
         THEN IF IsZero(x) \/ IsZero(y) THEN NaN ELSE Inf(x.s * y.s)
    ELSE Round(x.s * y.s, x.m * y.m, x.e + y.e)

\* s * (num / den) * 2^e: a long division with a sticky bit for the remainder
DivQ(s, num, den, e) ==
    Round(s, 2 * (num \div den) + (IF num % den = 0 THEN 0 ELSE 1), e - 1)

\* both significands brought to full width (dx, dy bits appended)
DivN(s, xm, xe, dx, ym, ye, dy) ==
    DivQ(s, xm * 2^dx * 2^(MantBits+1), ym * 2^dy,
         (xe - dx) - (ye - dy) - (MantBits+1))

FDiv(x, y) ==
    IF x.k = "nan" \/ y.k = "nan" THEN NaN
    ELSE IF x.k = "inf" THEN IF y.k = "inf" THEN NaN ELSE Inf(x.s * y.s)
    ELSE IF y.k = "inf" THEN Zero
    ELSE IF IsZero(y) THEN IF IsZero(x) THEN NaN ELSE Inf(x.s * y.s)
    ELSE IF IsZero(x) THEN Zero
    ELSE DivN(x.s * y.s, x.m, x.e, MantBits - BitLen(x.m),
              y.m, y.e, MantBits - BitLen(y.m))

\* the double nearest to v * 2^e, v an integer
RoundSigned(v, e) == Round(IF v < 0 THEN -1 ELSE 1, IF v < 0 THEN -v ELSE v, e)

\* x + y for finite non-zero x, y with x.e >= y.e
AddAligned(x, y) ==
    IF x.e - y.e > MantBits THEN x
    ELSE RoundSigned(x.s * x.m * 2^(x.e - y.e) + y.s * y.m, y.e)

FAdd(x, y) ==
    IF x.k = "nan" \/ y.k = "nan" THEN NaN
    ELSE IF x.k = "inf"
         THEN IF y.k = "inf" /\ y.s # x.s THEN NaN ELSE x
    ELSE IF y.k = "inf" THEN y
    ELSE IF IsZero(x) THEN y
    ELSE IF IsZero(y) THEN x
    ELSE AddAligned(IF x.e >= y.e THEN x ELSE y, IF x.e >= y.e THEN y ELSE x)

FSub(x, y) == FAdd(x, FNeg(y))

\* x < y
FLt(x, y) == FNegative(FSub(x, y))

\* x <= y
FLe(x, y) == x.k # "nan" /\ y.k # "nan" /\ ~FLt(y, x)

\* the integer nearest to a finite x of magnitude below 2^30
ToInt(x) ==
    IF IsZero(x) THEN 0
    ELSE IF x.e >= 0 THEN x.s * x.m * 2^(x.e)
    ELSE IF -x.e > BitLen(x.m) THEN 0
    ELSE x.s * RoundShift(x.m, -x.e)

\* whether finite x is an integer, and an odd one
IsInteger(x) ==
    IsZero(x) \/ x.e >= 0 \/ (-x.e < BitLen(x.m) /\ x.m % 2^(-x.e) = 0)
IsOddInteger(x) ==
    /\ ~IsZero(x)
    /\ IsInteger(x)
    /\ x.e <= 0
    /\ (x.m \div 2^(-x.e)) % 2 = 1

\* a decimal literal: digits * 10^p (10^6 is the largest power of ten that
\* the significand holds exactly)
RECURSIVE Pow10(_)
Pow10(p) ==
    IF p <= 6 THEN FromInt(10^p)
    ELSE FMul(Pow10(p - 6), FromInt(10^6))
Dec(digits, p) ==
    IF p >= 0 THEN FMul(FromInt(digits), Pow10(p))
    ELSE FDiv(FromInt(digits), Pow10(-p))

\* <cmath> M_PI
M_PI == Dec(31415927, -7)
\* ln 2 in two parts: Ln2Hi has 4 bits, so that n * Ln2Hi is exact for |n| < 2^11
Ln2Hi == [k |-> "fin", s |-> 1, m |-> 11 * 2^(MantBits-4), e |-> -MantBits]
Ln2Lo == Dec(5647181, -9)
Ln2 == FAdd(Ln2Hi, Ln2Lo)
\* 2 / sqrt(pi)
TwoOverSqrtPi == Dec(11283792, -7)
\* sqrt(1/2) * 2^MantBits
SqrtHalfMant == (2^MantBits * 7071) \div 10000

\* sum over i = n..last of z^(i-n) / (2i+1): the series of atanh(sqrt z)/sqrt z
RECURSIVE AtanhSeries(_, _, _)
AtanhSeries(z, n, last) ==
    FAdd(FDiv(One, FromInt(2*n + 1)),
         IF n = last THEN Zero ELSE FMul(z, AtanhSeries(z, n + 1, last)))

\* log(f * 2^n) with z = (f-1)/(f+1):  n ln 2 + 2 z (1 + z^2/3 + z^4/5 + ...)
LogZ(z, n) ==
    FAdd(FAdd(FMul(n, Ln2Hi), FMul(n, Ln2Lo)),
         FMul(FMul(Two, z), AtanhSeries(FMul(z, z), 0, 5)))

LogF(f, n) == LogZ(FDiv(FSub(f, One), FAdd(f, One)), FromInt(n))

\* log(m * 2^e) for a significand m of full width: f * 2^n, f in [0.70, 1.41)
LogN(m, e) ==
    LogF(Round(1, m, IF m < SqrtHalfMant THEN 1 - MantBits ELSE -MantBits),
         IF m < SqrtHalfMant THEN e + MantBits - 1 ELSE e + MantBits)

\* <cmath> log
FLog(x) ==
    IF x.k = "nan" THEN NaN
    ELSE IF IsZero(x) THEN Inf(-1)
    ELSE IF x.s = -1 THEN NaN
    ELSE IF x.k = "inf" THEN x
    ELSE LogN(x.m * 2^(MantBits - BitLen(x.m)),
              x.e - (MantBits - BitLen(x.m)))

\* sum over i = n..last of r^(i-n) * n!/i!
RECURSIVE ExpSeries(_, _, _)
ExpSeries(r, n, last) ==
    IF n = last THEN One
    ELSE FAdd(One, FMul(FDiv(r, FromInt(n + 1)), ExpSeries(r, n + 1, last)))

\* y * 2^n for finite positive y
Scale(y, n) == Round(1, y.m, y.e + n)

\* exp(x) = 2^n * exp(r) with x = n ln 2 + r
ExpN(x, n, fn) ==
    Scale(ExpSeries(FSub(FSub(x, FMul(fn, Ln2Hi)), FMul(fn, Ln2Lo)), 0, 9), n)

ExpR(x, n) == ExpN(x, n, FromInt(n))

\* <cmath> exp
FExp(x) ==
    IF x.k = "nan" THEN NaN
    ELSE IF x.k = "inf" THEN IF x.s = 1 THEN x ELSE Zero
    ELSE IF FLt(FromInt(710), x) THEN Inf(1)
    ELSE IF FLt(x, FromInt(-746)) THEN Zero
    ELSE ExpR(x, ToInt(FDiv(x, Ln2)))

\* <cmath> pow
FPow(x, y) ==
    IF x.k = "nan" \/ y.k = "nan" THEN NaN
    ELSE IF IsZero(y) THEN One
    ELSE IF IsZero(x) THEN IF y.s = 1 THEN Zero ELSE Inf(1)
    ELSE IF x.s = -1 /\ y.k = "fin" /\ ~IsInteger(y) THEN NaN
    ELSE [FExp(FMul(y, FLog(FAbs(x)))) EXCEPT
            !.s = IF x.s = -1 /\ y.k = "fin" /\ IsOddInteger(y) THEN -1 ELSE 1]

\* the largest r in lo..hi with r*r <= n
RECURSIVE SqrtSearch(_, _, _)
SqrtSearch(n, lo, hi) ==
    IF lo = hi THEN lo
    ELSE IF ((lo + hi + 1) \div 2) * ((lo + hi + 1) \div 2) <= n
         THEN SqrtSearch(n, (lo + hi + 1) \div 2, hi)
         ELSE SqrtSearch(n, lo, (lo + hi + 1) \div 2 - 1)

\* sqrt(n) * 2^e rounded, r the integer part of sqrt(n)
SqrtR(n, r, e) == Round(1, IF n > r*r + r THEN r + 1 ELSE r, e)

\* sqrt(m * 2^e) for a significand m of full width, sh bits appended to
\* make the exponent even
SqrtM(m, e, sh) ==
    SqrtR(m * 2^sh, SqrtSearch(m * 2^sh, 2^(MantBits-1), 2^MantBits - 1),
          (e - sh) \div 2)

SqrtN(m, e) ==
    SqrtM(m, e, IF (e - MantBits) % 2 = 0 THEN MantBits ELSE MantBits - 1)

\* <cmath> sqrt
FSqrt(x) ==
    IF x.k = "nan" THEN NaN
    ELSE IF IsZero(x) THEN Zero
    ELSE IF x.s = -1 THEN NaN
    ELSE IF x.k = "inf" THEN x
    ELSE SqrtN(x.m * 2^(MantBits - BitLen(x.m)),
               x.e - (MantBits - BitLen(x.m)))

\* acc + sum over i > n of t_i, where t_n = t and t_(i+1) = t_i * w / (2i+3),
\* up to the first term that no longer changes the sum
RECURSIVE ErfSeries(_, _, _, _)
ErfSum(w, n, t1, acc, acc1) ==
    IF acc1 = acc THEN acc ELSE ErfSeries(w, n + 1, t1, acc1)
ErfTerm(w, n, t1, acc) == ErfSum(w, n, t1, acc, FAdd(acc, t1))
ErfSeries(w, n, t, acc) ==
    ErfTerm(w, n, FDiv(FMul(t, w), FromInt(2*n + 3)), acc)

\* 2/sqrt(pi) * exp(-x^2) * x * sum over n of (2 x^2)^n / (2n+1)!!
ErfX(x, x2) ==
    FMul(FMul(TwoOverSqrtPi, FExp(FNeg(x2))),
         FMul(x, ErfSeries(FMul(Two, x2), 0, One, One)))

\* <cmath> erf
FErf(x) ==
    IF x.k = "nan" THEN NaN
    ELSE IF x.k = "inf" THEN FromInt(x.s)
    ELSE IF IsZero(x) THEN Zero
    ELSE IF FLe(FromInt(4), FAbs(x)) THEN FromInt(x.s)
    ELSE ErfX(x, FMul(x, x))

(***************************************************************************)
(* grain size ranges and grain size distributions                          *)
(***************************************************************************)

\* grain size ranges for each of the dust composition types (in m)
amin_gra == Dec(1, -9)          \* 0.001e-6
amax_gra == Dec(10, -6)         \* 10.0e-6
amin_sil == Dec(1, -9)          \* 0.001e-6
amax_sil == Dec(10, -6)         \* 10.0e-6
amin_pah == Dec(3548, -13)      \* 0.0003548e-6
amax_pah == Dec(1, -8)          \* 0.01e-6

\* double f0 = C/a * pow(a/at,alpha);
grasil_f0(a, C, at, alpha) == FMul(FDiv(C, a), FPow(FDiv(a, at), alpha))

\* the denominator 1.0-beta*a/at of the else branch of f1
grasil_f1_den(a, at, beta) == FSub(One, FDiv(FMul(beta, a), at))

\* f1 = 1.0/den;  with the branch taken and the denominator evaluated
grasil_f1_else(den) ==
    [branch |-> "else", den |-> <<den>>, val |-> FDiv(One, den)]

\* the test turned round: the else branch taken for beta >= 0
grasil_f1_negative(a, at, beta) ==
    IF FLt(beta, Zero)
    THEN [branch |-> "then", den |-> <<>>,
          val |-> FAdd(One, FDiv(FMul(beta, a), at))]
    ELSE grasil_f1_else(grasil_f1_den(a, at, beta))

\* if (beta>0) f1 = 1.0+beta*a/at;  else f1 = 1.0/(1.0-beta*a/at);
\* with the branch taken and the denominator, where one is evaluated
grasil_f1(a, at, beta) ==
    IF FLt(Zero, beta)
    THEN [branch |-> "then", den |-> <<>>,
          val |-> FAdd(One, FDiv(FMul(beta, a), at))]
    ELSE grasil_f1_else(grasil_f1_den(a, at, beta))

\* if (a<at) f2 = 1.0;  else f2 = exp(-pow((a-at)/ac,3));
grasil_f2(a, at, ac) ==
    IF FLt(a, at)
    THEN One
    ELSE FExp(FNeg(FPow(FDiv(FSub(a, at), ac), FromInt(3))))

\* return f0*f1*f2;  with the arguments and the locals
grasil_return(a, C, at, ac, alpha, beta, f0, f1, f2) ==
    [kernel |-> "dnda_grasil",
     a |-> a, C |-> C, at |-> at, ac |-> ac, alpha |-> alpha, beta |-> beta,
     f0 |-> f0, f1 |-> f1.val, f2 |-> f2,
     branch |-> f1.branch, den |-> f1.den,
     ret |-> FMul(FMul(f0, f1.val), f2)]

\* parameterized grain size distribution for graphite and silicate
dnda_grasil(a, C, at, ac, alpha, beta) ==
    grasil_return(a, C, at, ac, alpha, beta,
                  grasil_f0(a, C, at, alpha),
                  grasil_f1(a, at, beta),
                  grasil_f2(a, at, ac))

mC == Dec(19944, -30)           \* 1.9944e-26, mass of C atom in kg
rho == Dec(224, 1)              \* 2.24e3, mass density of graphite in kg/m^3
amin == Dec(35, -11)            \* 3.5e-10, 3.5 Angstrom in m

\* the body of the first loop of dnda_pah: B[i]
pah_B(sigma, a0i, bci) ==
    LET t0 == FDiv(FromInt(3), FPow(FMul(Two, M_PI), Dec(15, -1)))
        t1 == FExp(FMul(FMul(Dec(-45, -1), sigma), sigma))
        t2 == FDiv(FDiv(FDiv(One, rho), FPow(a0i, FromInt(3))), sigma)
        erffac == FAdd(FDiv(FMul(FromInt(3), sigma), FSqrt(Two)),
                       FDiv(FDiv(FLog(FDiv(a0i, amin)), FSqrt(Two)), sigma))
        t3 == FDiv(FMul(bci, mC), FAdd(One, FErf(erffac)))
    IN  FMul(FMul(FMul(t0, t1), t2), t3)

\* B[i]/a*exp(-0.5*u*u)
pah_term_u(a, Bi, u) == FMul(FDiv(Bi, a), FExp(FMul(FMul(Dec(-5, -1), u), u)))

\* the body of the second loop of dnda_pah: u, and the term added to sum
pah_term(a, sigma, a0i, Bi) ==
    pah_term_u(a, Bi, FDiv(FLog(FDiv(a, a0i)), sigma))

\* return sum;  with the arguments, B and the two terms added to sum
pah_return(a, sigma, a0, bc, B, term) ==
    [kernel |-> "dnda_pah",
     a |-> a, sigma |-> sigma, a0 |-> a0, bc |-> bc,
     B |-> B, term |-> term,
     ret |-> FAdd(FAdd(Zero, term[1]), term[2])]

\* the second loop
pah_sum(a, sigma, a0, bc, B) ==
    pah_return(a, sigma, a0, bc, B,
               [i \in 1..2 |-> pah_term(a, sigma, a0[i], B[i])])

\* parameterized grain size distribution for pah (whether neutral or ionized)
dnda_pah(a, sigma, a0, bc) ==
    pah_sum(a, sigma, a0, bc, [i \in 1..2 |-> pah_B(sigma, a0[i], bc[i])])

\* dnda_grasil(a, C, at, ac, alpha, beta) with the constants of a function
grasil(a, p) == dnda_grasil(a, p.C, p.at, p.ac, p.alpha, p.beta)
\* dnda_pah(a, sigma, a0, bc) with the constants of a function
pah(a, p) == dnda_pah(a, p.sigma, p.a0, p.bc)

\* return k;  with the call made
Return(k) == [call |-> k, ret |-> k.ret]
\* return 0.5 * k;  with the call made
ReturnHalf(k) == [call |-> k, ret |-> FMul(Half, k.ret)]

\* grain size distributions for Milky Way environment with R_V = 3.1
gra_mwy ==
    [C     |-> Dec(999, -14),       \* 9.99e-12
     at    |-> Dec(107, -10),       \* 0.0107e-6
     ac    |-> Dec(428, -9),        \* 0.428e-6
     alpha |-> Dec(-154, -2),       \* -1.54
     beta  |-> Dec(-165, -3)]       \* -0.165

dnda_gra_mwy(a) == Return(grasil(a, gra_mwy))

sil_mwy ==
    [C     |-> Dec(100, -15),       \* 1.00e-13
     at    |-> Dec(164, -9),        \* 0.164e-6
     ac    |-> Dec(1, -7),          \* 0.1e-6
     alpha |-> Dec(-221, -2),       \* -2.21
     beta  |-> Dec(300, -3)]        \* 0.300

dnda_sil_mwy(a) == Return(grasil(a, sil_mwy))

pah_mwy ==
    [sigma |-> Dec(4, -1),                      \* 0.4
     a0    |-> <<Dec(35, -11), Dec(30, -10)>>,  \* {3.5e-10, 30e-10}
     bc    |-> <<Dec(45, -6), Dec(15, -6)>>]    \* {4.5e-5, 1.5e-5}

\* 50% of the PAH grains are neutral, 50% are ionized
dnda_pah_mwy(a) == ReturnHalf(pah(a, pah_mwy))

\* grain size distributions for LMC environment
gra_lmc ==
    [C     |-> Dec(351, -17),       \* 3.51e-15
     at    |-> Dec(980, -10),       \* 0.0980e-6
     ac    |-> Dec(641, -9),        \* 0.641e-6
     alpha |-> Dec(-299, -2),       \* -2.99
     beta  |-> Dec(246, -2)]        \* 2.46

dnda_gra_lmc(a) == Return(grasil(a, gra_lmc))

sil_lmc ==
    [C     |-> Dec(178, -16),       \* 1.78e-14
     at    |-> Dec(184, -9),        \* 0.184e-6
     ac    |-> Dec(1, -7),          \* 0.1e-6
     alpha |-> Dec(-249, -2),       \* -2.49
     beta  |-> Dec(345, -3)]        \* 0.345

dnda_sil_lmc(a) == Return(grasil(a, sil_lmc))

pah_lmc ==
    [sigma |-> Dec(4, -1),                      \* 0.4, Milky Way value
     a0    |-> <<Dec(35, -11), Dec(30, -10)>>,  \* {3.5e-10, 30e-10}
     bc    |-> <<Dec(75, -7), Dec(25, -7)>>]    \* {0.75e-5, 0.25e-5}

\* the value of dnda_pah returned as it is, the factor 0.5 left out
dnda_pah_lmc_unscaled(a) == Return(pah(a, pah_lmc))

\* 50% of the PAH grains are neutral, 50% are ionized
dnda_pah_lmc(a) == ReturnHalf(pah(a, pah_lmc))

\* a call through a pointer to one of the six functions
Call(dnda, a) ==
    CASE dnda = "dnda_gra_mwy" -> dnda_gra_mwy(a)
      [] dnda = "dnda_sil_mwy" -> dnda_sil_mwy(a)
      [] dnda = "dnda_pah_mwy" -> dnda_pah_mwy(a)
      [] dnda = "dnda_gra_lmc" -> dnda_gra_lmc(a)
      [] dnda = "dnda_sil_lmc" -> dnda_sil_lmc(a)
      [] dnda = "dnda_pah_lmc" -> dnda_pah_lmc(a)

(***************************************************************************)
(* WeingartnerDraineDustMix                                                *)
(***************************************************************************)

\* the largest number of grain sizes configured for a composition type
MaxSizes == 2
\* the number of times the setup framework invokes setupSelfBefore
MaxInvocations == 2
\* the number of intervals of the logarithmic grid of grain radii on which
\* the size distributions are evaluated
GridSteps == 8

VARIABLES
    _environment,       \* the configured environment
    _numGraphiteSizes,  \* the configured number of graphite grain sizes
    _numSilicateSizes,  \* the configured number of silicate grain sizes
    _numPAHSizes,       \* the configured number of PAH grain sizes
    pc,                 \* the statement setupSelfBefore is at, or "idle"
    invocations,        \* the number of invocations of setupSelfBefore
    heap,               \* the number of objects allocated with new
    log,                \* the calls made on the base class, in order
    call,               \* a size distribution called: [fn, args]
    out                 \* <<>>, or <<the locals and the value returned>>

vars == <<_environment, _numGraphiteSizes, _numSilicateSizes, _numPAHSizes,
          pc, invocations, heap, log, call, out>>
config == <<_environment, _numGraphiteSizes, _numSilicateSizes, _numPAHSizes>>

\* enum class Environment
Environment == {"MilkyWay", "LMC"}
\* the values an object of type Environment can hold: the enumerators, and
\* the other values of the underlying type
EnvironmentValues == Environment \cup {"static_cast<Environment>(2)"}

NumSizes == (-1)..MaxSizes

\* new T(this): an object of class T allocated after n others
New(T, n) == [class |-> T, parent |-> "this", id |-> n + 1]

\* the call addPopulations(gc, amin, amax, dnda, numSizes) on the base class
addPopulations(gc, amin_, amax_, dnda, numSizes) ==
    [op |-> "addPopulations", gc |-> gc, amin |-> amin_, amax |-> amax_,
     dnda |-> dnda, numSizes |-> numSizes]

\* _environment==Environment::MilkyWay ? &dnda_gra_mwy : &dnda_gra_lmc
GraphiteDnda_swapped(env) ==
    IF env = "MilkyWay" THEN "dnda_gra_lmc" ELSE "dnda_gra_mwy"
GraphiteDnda(env) ==
    IF env = "MilkyWay" THEN "dnda_gra_mwy" ELSE "dnda_gra_lmc"
\* _environment==Environment::MilkyWay ? &dnda_sil_mwy : &dnda_sil_lmc
SilicateDnda(env) ==
    IF env = "MilkyWay" THEN "dnda_sil_mwy" ELSE "dnda_sil_lmc"
\* _environment==Environment::MilkyWay ? &dnda_pah_mwy : &dnda_pah_lmc
PAHDnda(env) ==
    IF env = "MilkyWay" THEN "dnda_pah_mwy" ELSE "dnda_pah_lmc"

kernelIdle == call = [fn |-> "none", args |-> <<>>] /\ out = <<>>

Init ==
    /\ _environment \in Environment
    /\ _numGraphiteSizes \in NumSizes
    /\ _numSilicateSizes \in NumSizes
    /\ _numPAHSizes \in NumSizes
    /\ pc = "idle"
    /\ invocations = 0
    /\ heap = 0
    /\ log = <<>>
    /\ kernelIdle

\* the same, with any value an Environment object can hold
InitAnyEnvironment ==
    /\ _environment \in EnvironmentValues
    /\ _numGraphiteSizes \in NumSizes
    /\ _numSilicateSizes \in NumSizes
    /\ _numPAHSizes \in NumSizes
    /\ pc = "idle"
    /\ invocations = 0
    /\ heap = 0
    /\ log = <<>>
    /\ kernelIdle

\* a setup that returns at once when the dust mix was set up before
setupSelfBefore_once ==
    /\ pc = "idle"
    /\ invocations < MaxInvocations
    /\ invocations' = invocations + 1
    /\ pc' = IF invocations > 0 THEN "idle" ELSE "134"
    /\ UNCHANGED <<config, heap, log, call, out>>

\* void WeingartnerDraineDustMix::setupSelfBefore(): the framework calls it
setupSelfBefore ==
    /\ pc = "idle"
    /\ invocations < MaxInvocations
    /\ invocations' = invocations + 1
    /\ pc' = "134"
    /\ UNCHANGED <<config, heap, log, call, out>>

\* the call on the base class left out
BaseSetup_skipped ==
    /\ pc = "134"
    /\ pc' = "136"
    /\ UNCHANGED <<config, invocations, heap, log, call, out>>

\* MultiGrainDustMix::setupSelfBefore();
BaseSetup ==
    /\ pc = "134"
    /\ log' = Append(log, [op |-> "MultiGrainDustMix::setupSelfBefore"])
    /\ pc' = "136"
    /\ UNCHANGED <<config, invocations, heap, call, out>>

\* addPopulations(new DraineGraphiteGrainComposition(this), amin_gra, amax_gra,
\*                ... ? &dnda_gra_mwy : &dnda_gra_lmc, _numGraphiteSizes);
AddGraphite ==
    /\ pc = "136"
    /\ heap' = heap + 1
    /\ log' = Append(log,
           addPopulations(New("DraineGraphiteGrainComposition", heap),
                          amin_gra, amax_gra,
                          GraphiteDnda(_environment), _numGraphiteSizes))
    /\ pc' = "138"
    /\ UNCHANGED <<config, invocations, call, out>>

\* the silicate populations added over the size range of the PAHs
AddSilicate_pah_range ==
    /\ pc = "138"
    /\ heap' = heap + 1
    /\ log' = Append(log,
           addPopulations(New("DraineSilicateGrainComposition", heap),
                          amin_pah, amax_pah,
                          SilicateDnda(_environment), _numSilicateSizes))
    /\ pc' = "140"
    /\ UNCHANGED <<config, invocations, call, out>>

\* addPopulations(new DraineSilicateGrainComposition(this), amin_sil, amax_sil,
\*                ... ? &dnda_sil_mwy : &dnda_sil_lmc, _numSilicateSizes);
AddSilicate ==
    /\ pc = "138"
    /\ heap' = heap + 1
    /\ log' = Append(log,
           addPopulations(New("DraineSilicateGrainComposition", heap),
                          amin_sil, amax_sil,
                          SilicateDnda(_environment), _numSilicateSizes))
    /\ pc' = "140"
    /\ UNCHANGED <<config, invocations, call, out>>

\* addPopulations(new DraineNeutralPAHGrainComposition(this), amin_pah, amax_pah,
\*                ... ? &dnda_pah_mwy : &dnda_pah_lmc, _numPAHSizes);
AddNeutralPAH ==
    /\ pc = "140"
    /\ heap' = heap + 1
    /\ log' = Append(log,
           addPopulations(New("DraineNeutralPAHGrainComposition", heap),
                          amin_pah, amax_pah,
                          PAHDnda(_environment), _numPAHSizes))
    /\ pc' = "142"
    /\ UNCHANGED <<config, invocations, call, out>>

\* the ionized PAH populations added with the Milky Way distribution
\* whatever the environment
AddIonizedPAH_mwy ==
    /\ pc = "142"
    /\ heap' = heap + 1
    /\ log' = Append(log,
           addPopulations(New("DraineIonizedPAHGrainComposition", heap),
                          amin_pah, amax_pah,
                          "dnda_pah_mwy", _numPAHSizes))
    /\ pc' = "idle"
    /\ UNCHANGED <<config, invocations, call, out>>

\* the ionized PAH populations added with the number of graphite sizes
AddIonizedPAH_graphite_sizes ==
    /\ pc = "142"
    /\ heap' = heap + 1
    /\ log' = Append(log,
           addPopulations(New("DraineIonizedPAHGrainComposition", heap),
                          amin_pah, amax_pah,
                          PAHDnda(_environment), _numGraphiteSizes))
    /\ pc' = "idle"
    /\ UNCHANGED <<config, invocations, call, out>>

\* addPopulations(new DraineIonizedPAHGrainComposition(this), amin_pah, amax_pah,
\*                ... ? &dnda_pah_mwy : &dnda_pah_lmc, _numPAHSizes);
\* and the return
AddIonizedPAH ==
    /\ pc = "142"
    /\ heap' = heap + 1
    /\ log' = Append(log,
           addPopulations(New("DraineIonizedPAHGrainComposition", heap),
                          amin_pah, amax_pah,
                          PAHDnda(_environment), _numPAHSizes))
    /\ pc' = "idle"
    /\ UNCHANGED <<config, invocations, call, out>>

Next ==
    \/ setupSelfBefore
    \/ BaseSetup
    \/ AddGraphite
    \/ AddSilicate
    \/ AddNeutralPAH
    \/ AddIonizedPAH

Spec == Init /\ [][Next]_vars

SpecAnyEnvironment == InitAnyEnvironment /\ [][Next]_vars

(***************************************************************************)
(* the size distributions, called on a grid of radii                       *)
(***************************************************************************)

\* lo * (hi/lo)^(i/GridSteps), i = 0..GridSteps: the ends of the range and
\* the radii between them at equal logarithmic distances
Grid(lo, hi) ==
    {lo, hi} \cup
    {FMul(lo, FPow(FDiv(hi, lo), FDiv(FromInt(i), FromInt(GridSteps)))) :
        i \in 1..(GridSteps - 1)}

GraSilFunctions == {"dnda_gra_mwy", "dnda_sil_mwy", "dnda_gra_lmc", "dnda_sil_lmc"}
PAHFunctions == {"dnda_pah_mwy", "dnda_pah_lmc"}

GraSilTables == {gra_mwy, sil_mwy, gra_lmc, sil_lmc}

\* the radii at/beta of the tables with beta > 0, where 1.0-beta*a/at
\* vanishes: all of them lie in the size range
Poles == {FDiv(p.at, p.beta) : p \in {q \in GraSilTables : FLt(Zero, q.beta)}}

\* the radii the graphite and silicate distributions are called on
Radii == Grid(amin_gra, amax_gra) \cup Poles

\* the calls made: each of the six functions on the radii of its size range,
\* and dnda_grasil itself with each table, and with each table's beta
\* replaced by 0
Calls ==
    {[fn |-> f, args |-> <<a>>] : f \in GraSilFunctions, a \in Radii}
    \cup
    {[fn |-> f, args |-> <<a>>] :
        f \in PAHFunctions, a \in Grid(amin_pah, amax_pah)}
    \cup
    {[fn |-> "dnda_grasil", args |-> <<a, p.C, p.at, p.ac, p.alpha, b>>] :
        a \in Radii, p \in GraSilTables, b \in {Zero}}
    \cup
    {[fn |-> "dnda_grasil", args |-> <<a, p.C, p.at, p.ac, p.alpha, p.beta>>] :
        a \in Radii, p \in GraSilTables}

InitKernel ==
    /\ _environment = "MilkyWay"
    /\ _numGraphiteSizes = 0
    /\ _numSilicateSizes = 0
    /\ _numPAHSizes = 0
    /\ pc = "idle"
    /\ invocations = 0
    /\ heap = 0
    /\ log = <<>>
    /\ call \in Calls
    /\ out = <<>>

\* one of the six functions is called through its pointer
CallDnda ==
    /\ out = <<>>
    /\ call.fn \in GraSilFunctions \cup PAHFunctions
    /\ out' = <<Call(call.fn, call.args[1])>>
    /\ UNCHANGED <<config, pc, invocations, heap, log, call>>

\* dnda_grasil is called
CallDndaGrasil ==
    /\ out = <<>>
    /\ call.fn = "dnda_grasil"
    /\ out' = <<dnda_grasil(call.args[1], call.args[2], call.args[3],
                            call.args[4], call.args[5], call.args[6])>>
    /\ UNCHANGED <<config, pc, invocations, heap, log, call>>

NextKernel == CallDnda \/ CallDndaGrasil

SpecKernel == InitKernel /\ [][NextKernel]_vars

(***************************************************************************)
(* properties of setupSelfBefore                                           *)
(***************************************************************************)

\* the addPopulations calls made so far, in order
calls == SelectSeq(log, LAMBDA r : r.op = "addPopulations")

\* the position within its run of the i-th addPopulations call
Position(i) == ((i - 1) % 4) + 1

\* the statements of setupSelfBefore, by the number of addPopulations calls
\* the current run has made when control is at them
StatementAfter(n) ==
    CASE n = 0 -> {"134", "136"}
      [] n = 1 -> {"138"}
      [] n = 2 -> {"140"}
      [] n = 3 -> {"142"}

\* the addPopulations calls of completed runs, and of the run under way
CallsMatchControl ==
    IF pc = "idle"
    THEN Len(calls) = 4 * invocations
    ELSE /\ invocations >= 1
         /\ Len(calls) - 4 * (invocations - 1) \in 0..3
         /\ pc \in StatementAfter(Len(calls) - 4 * (invocations - 1))

CompositionKinds ==
    <<"DraineGraphiteGrainComposition", "DraineSilicateGrainComposition",
      "DraineNeutralPAHGrainComposition", "DraineIonizedPAHGrainComposition">>

\* C1: in either environment and for any counts, a run of setupSelfBefore
\* calls addPopulations exactly four times, for graphite, silicate, neutral
\* PAH and ionized PAH in this order; each call passes a composition object
\* of that kind which no earlier call passed, and the size range of the
\* material: [0.001e-6, 10e-6] for graphite and silicate and
\* [0.0003548e-6, 0.01e-6] for both PAH calls, whatever the environment.
FourCallsInOrder ==
    /\ _environment \in Environment
    /\ CallsMatchControl
    /\ \A i \in 1..Len(calls) :
          /\ calls[i].gc.class = CompositionKinds[Position(i)]
          /\ calls[i].gc.parent = "this"
          /\ \A j \in 1..(i - 1) : calls[j].gc.id # calls[i].gc.id
          /\ calls[i].amin =
                (IF Position(i) <= 2 THEN Dec(1, -9) ELSE Dec(3548, -13))
          /\ calls[i].amax =
                (IF Position(i) <= 2 THEN Dec(10, -6) ELSE Dec(1, -8))

\* one run in the LMC environment has returned after its four calls
FourCallsMade ==
    /\ pc = "idle"
    /\ invocations = 1
    /\ _environment = "LMC"
    /\ Len(calls) = 4
    /\ calls[4].gc.class = "DraineIonizedPAHGrainComposition"
    /\ calls[2].amax = Dec(10, -6)

\* C2: each addPopulations call passes the size distribution of the
\* configured environment for its material: dnda_gra_mwy, dnda_sil_mwy,
\* dnda_pah_mwy, dnda_pah_mwy in the Milky Way environment and dnda_gra_lmc,
\* dnda_sil_lmc, dnda_pah_lmc, dnda_pah_lmc in the LMC environment; no call
\* passes a function of the other environment or of another material.
DistributionOfEnvironment ==
    \A i \in 1..Len(calls) :
        calls[i].dnda =
            (IF _environment = "MilkyWay"
             THEN <<"dnda_gra_mwy", "dnda_sil_mwy",
                    "dnda_pah_mwy", "dnda_pah_mwy">>
             ELSE <<"dnda_gra_lmc", "dnda_sil_lmc",
                    "dnda_pah_lmc", "dnda_pah_lmc">>)[Position(i)]

\* a run in the Milky Way environment has made its four calls
MilkyWayDistributionsPassed ==
    /\ _environment = "MilkyWay"
    /\ pc = "idle"
    /\ Len(calls) = 4
    /\ calls[1].dnda = "dnda_gra_mwy"
    /\ calls[4].dnda = "dnda_pah_mwy"

\* C3: when _environment holds a value that is neither MilkyWay nor LMC,
\* setupSelfBefore adds no population with the distributions of an
\* environment chosen for it.
UnrecognizedEnvironmentAddsNothing ==
    _environment \notin Environment => calls = <<>>

\* C4: each addPopulations call passes the configured number of sizes of its
\* material as it is: the graphite call the number of graphite sizes, the
\* silicate call the number of silicate sizes, both PAH calls the number of
\* PAH sizes; for any numbers, zero and negative ones included, the run
\* goes through all its statements and makes the four calls.
SizesForwarded ==
    /\ pc \in {"idle", "134", "136", "138", "140", "142"}
    /\ pc = "idle" => Len(calls) = 4 * invocations
    /\ \A i \in 1..Len(calls) :
          calls[i].numSizes =
              <<_numGraphiteSizes, _numSilicateSizes,
                _numPAHSizes, _numPAHSizes>>[Position(i)]

\* a run with a negative number of graphite sizes and no silicate sizes has
\* made its four calls
NonPositiveSizesForwarded ==
    /\ pc = "idle"
    /\ _numGraphiteSizes = -1
    /\ _numSilicateSizes = 0
    /\ _numPAHSizes = 1
    /\ Len(calls) = 4
    /\ calls[1].numSizes = -1
    /\ calls[2].numSizes = 0

\* C5: in each environment the neutral PAH call and the ionized PAH call of
\* a run pass the same function, so that the two return the same value
\* (compared at the lower end of the size range when the run returns), and
\* the same size range; the two calls differ in the kind of the composition
\* object only.
PAHCallsAlike ==
    \A i \in 1..Len(calls) :
        Position(i) = 4 =>
            /\ calls[i].dnda = calls[i-1].dnda
            /\ (pc = "idle" /\ i = Len(calls)) =>
                  Call(calls[i].dnda, amin_pah).ret
                      = Call(calls[i-1].dnda, amin_pah).ret
            /\ calls[i].amin = calls[i-1].amin
            /\ calls[i].amax = calls[i-1].amax
            /\ calls[i].numSizes = calls[i-1].numSizes
            /\ calls[i].gc.class # calls[i-1].gc.class
            /\ calls[i-1].gc.class = "DraineNeutralPAHGrainComposition"
            /\ calls[i].gc.class = "DraineIonizedPAHGrainComposition"

\* both PAH calls of a run in the LMC environment are made
BothPAHCallsMade ==
    /\ _environment = "LMC"
    /\ Len(calls) = 4
    /\ calls[3].dnda = "dnda_pah_lmc"
    /\ calls[4].dnda = "dnda_pah_lmc"
    /\ calls[3].gc.class = "DraineNeutralPAHGrainComposition"

\* C6: k runs of setupSelfBefore on the same dust mix make 4k addPopulations
\* calls: every run repeats the four calls of the run before it, each with
\* a composition object allocated anew; nothing holds a second run back.
RunsRepeat ==
    /\ pc = "idle" => Len(calls) = 4 * invocations
    /\ pc # "idle" => Len(calls) >= 4 * (invocations - 1)
    /\ \A i \in 5..Len(calls) :
          /\ [calls[i] EXCEPT !.gc = calls[i-4].gc] = calls[i-4]
          /\ calls[i].gc.class = calls[i-4].gc.class
          /\ calls[i].gc.id > calls[i-4].gc.id
    /\ \A i, j \in 1..Len(calls) : i # j => calls[i].gc # calls[j].gc

\* a second run has returned: eight calls are made
SecondRunMade ==
    /\ pc = "idle"
    /\ invocations = 2
    /\ Len(calls) = 8
    /\ calls[5].gc.class = "DraineGraphiteGrainComposition"

\* C10: every run of setupSelfBefore calls MultiGrainDustMix::setupSelfBefore
\* exactly once, and the call has returned before the first addPopulations
\* call of the run: the calls on the base class come in groups of five that
\* the base setup leads.
BaseSetupFirst ==
    /\ \A i \in 1..Len(log) :
          (log[i].op = "MultiGrainDustMix::setupSelfBefore") <=> (i % 5 = 1)
    /\ pc = "idle" => Len(log) = 5 * invocations
    /\ pc = "134" => Len(log) = 5 * (invocations - 1)
    /\ pc \notin {"idle", "134"} =>
          /\ Len(log) > 5 * (invocations - 1)
          /\ Len(log) < 5 * invocations
          /\ Len(calls) = Len(log) - invocations

\* the second run has made its base setup call and no addPopulations call yet
BaseSetupOfSecondRun ==
    /\ pc = "136"
    /\ invocations = 2
    /\ Len(log) = 6
    /\ log[6].op = "MultiGrainDustMix::setupSelfBefore"

(***************************************************************************)
(* properties of the size distributions                                    *)
(***************************************************************************)

\* one of the six functions was called and has returned
Returned == out # <<>> /\ call.fn \in GraSilFunctions \cup PAHFunctions

\* dnda_grasil was called, by itself or from one of the four functions, and
\* has returned
ReturnedGrasil == out # <<>> /\ call.fn \in GraSilFunctions \cup {"dnda_grasil"}

\* the arguments, locals and value of the call of dnda_grasil that returned
frame == IF call.fn = "dnda_grasil" THEN out[1] ELSE out[1].call

\* C7: for each environment and material and each radius in the size range
\* of the material, the size distribution returns a value above zero: the
\* factors f0, f1 and f2 of dnda_grasil are each above zero, and so are the
\* two terms that dnda_pah adds up.
DistributionPositive ==
    Returned =>
        /\ FPos(out[1].ret)
        /\ call.fn \in GraSilFunctions =>
              /\ FPos(out[1].call.f0)
              /\ FPos(out[1].call.f1)
              /\ FPos(out[1].call.f2)
        /\ call.fn \in PAHFunctions =>
              /\ FPos(out[1].call.term[1])
              /\ FPos(out[1].call.term[2])

\* the table of the environment a PAH function belongs to
PAHTable(f) == IF f = "dnda_pah_mwy" THEN pah_mwy ELSE pah_lmc

\* C8: the PAH function of an environment returns 0.5 times the value of
\* dnda_pah called with sigma, a0 and bc of that environment, so that the
\* neutral and the ionized PAH distribution add up to the value of dnda_pah;
\* the graphite and silicate functions return the value of dnda_grasil as
\* it is.
PAHHalved ==
    Returned =>
        /\ call.fn \in PAHFunctions =>
              /\ out[1].call =
                    dnda_pah(call.args[1], PAHTable(call.fn).sigma,
                             PAHTable(call.fn).a0, PAHTable(call.fn).bc)
              /\ out[1].ret = FMul(Dec(5, -1), out[1].call.ret)
              /\ FAdd(out[1].ret, out[1].ret) = out[1].call.ret
        /\ call.fn \in GraSilFunctions =>
              /\ out[1].call.kernel = "dnda_grasil"
              /\ out[1].ret = out[1].call.ret

\* dnda_pah_lmc has returned a value above zero
PAHValueReturned ==
    /\ Returned
    /\ call.fn = "dnda_pah_lmc"
    /\ call.args[1] = amin_pah
    /\ FPos(out[1].ret)
    /\ FLt(out[1].ret, out[1].call.ret)

\* beta*a/at of a call of dnda_grasil
BetaRatio(f) == FDiv(FMul(f.beta, f.a), f.at)

\* C9: dnda_grasil sets f1 to 1 + beta*a/at when beta > 0 and to
\* 1/(1 - beta*a/at) otherwise, so also when beta = 0; with the tables of the
\* four graphite and silicate functions and a radius in the size range the
\* second branch never divides by zero: where the denominator 1 - beta*a/at
\* is evaluated it is not zero, and f1 is finite.
F1Branches ==
    ReturnedGrasil =>
        /\ frame.branch = (IF FLt(Zero, frame.beta) THEN "then" ELSE "else")
        /\ frame.beta = Zero => frame.branch = "else"
        /\ frame.branch = "then" =>
              /\ frame.den = <<>>
              /\ frame.f1 = FAdd(One, BetaRatio(frame))
        /\ frame.branch = "else" =>
              /\ frame.den = <<FSub(One, BetaRatio(frame))>>
              /\ frame.f1 = FDiv(One, frame.den[1])
        /\ call.fn \in GraSilFunctions =>
              /\ frame.den # <<Zero>>
              /\ IsFinite(frame.f1)

\* dnda_gra_mwy, the one function with beta < 0, has returned from a call at
\* the upper end of the size range, where the denominator is largest
SecondBranchTaken ==
    /\ ReturnedGrasil
    /\ call.fn = "dnda_gra_mwy"
    /\ call.args[1] = amax_gra
    /\ frame.branch = "else"
    /\ FLt(One, frame.den[1])
====
